---- MODULE Spec2Model ----
(***************************************************************************)
(* Dispatch reliability engine of tv-pipelines-hudsci: the outbound        *)
(* pipeline (candidate selection, dispatch record management, dispatch via *)
(* the partner channel, confirmation polling) over the EPCIS_outbound      *)
(* collection of the record store.  Every call to the record store or to   *)
(* the partner is one step; pipeline runs may overlap (the HTTP run        *)
(* handler takes no lock) and may crash between any two calls.             *)
(***************************************************************************)
EXTENDS Integers, Sequences, FiniteSets, TLC

\* ------------------------------------------------------------------ bounds
NumOps == 3          \* approved shipping operations in the store, at most
BatchSize == 2       \* cfg.DispatchBatchSize of the modelled deployments, at most
MaxWork == 4         \* operations x batch size of a deployment, at most
NumericOps == 2      \* shipping operations of a deployment with numeric record ids
ConcOps == 1         \* approved shipping operations when runs overlap
ConcRuns == 3        \* pipeline runs started when runs overlap, at most
MaxRecords == 2      \* cap on EPCIS_outbound records ever created
MaxAttempts == 2     \* cfg.DispatchMaxRetries of the modelled deployments
MaxIncs == 3         \* cap on successful increments of one record
MaxPreFails == 3     \* cap on the counted upload failures of one record
MaxSeed == 2         \* digit strings given to the codec start at digit 1..MaxSeed+1
MaxLen == 4          \* length of the strings and targets given to normalizeToLength

\* ------------------------------------------------------- program constants
ThresholdNum == 1    \* cfg.FailureThreshold = 0.5 = ThresholdNum / ThresholdDen
ThresholdDen == 2

Cycles == {1, 2}     \* pipeline runs that may overlap
SeqCycles == {1}     \* the runs of a deployment that never overlaps runs
NoRec == 0           \* DispatchRecordID == nil / ""
NoUUID == 0          \* trustmed_uuid null / ""

VARIABLES
    records,   \* EPCIS_outbound collection: sequence of records, id = index
    run,       \* per pipeline run: its position and the task-local variables
    approved,  \* shipping_scanning_operation: the operations with status approved
    started,   \* pipeline runs started so far (counted while runs are capped)
    env,       \* what the deployment fixes: the shipping operations upstream may
               \* approve, cfg.DispatchBatchSize, whether the store returns record
               \* ids as strings or as numbers, whether the number of runs is capped,
               \* whether the history of accepted submissions and failed uploads
               \* is kept on the records
    codec      \* a call of the GS1 identifier codec: function, input, result

vars == <<records, run, approved, started, env, codec>>

\* ----------------------------------------------------------------- helpers
Min(a, b) == IF a < b THEN a ELSE b

MaxOf(S) == CHOOSE m \in S : \A k \in S : k <= m

\* ------------------------------------------------------------ record store
\* CreateDispatchRecord: the record posted for a shipping operation.
\* incs, subs, acc and preFails are history fields (successful increments,
\* submissions made, a submission was accepted by the partner, runs whose upload
\* of the record's document failed).
CreateDispatchRecord(op) ==
    [op |-> op, status |-> "pending", count |-> 0, uuid |-> NoUUID,
     ackDate |-> FALSE, tmStatus |-> "null", confirmed |-> FALSE,
     incs |-> 0, subs |-> 0, acc |-> FALSE, preFails |-> 0]

\* UpdateDispatchStatus: the patch it sends, applied to record r (status, and
\* trustmed_uuid with date_acknowledged when a TrustMedUUID is given; the error
\* text, HTTP code, file ids and attempt timestamps are not modelled).
UpdateDispatchStatus(r, status, uuid) ==
    [r EXCEPT !.status = status,
              !.uuid = IF uuid # NoUUID THEN uuid ELSE @,
              !.ackDate = IF uuid # NoUUID THEN TRUE ELSE @]

\* --------------------------------------------------- candidate selection
RECURSIVE InIdOrder(_)
\* the elements of a set of ids as a sequence in ascending order
InIdOrder(S) ==
    IF S = {} THEN <<>>
    ELSE LET m == MaxOf(S) IN Append(InIdOrder(S \ {m}), m)

\* QueryItems(shipping_scanning_operation, status = approved, limit batchSize*2):
\* the approved operations in id order (each has a capture id), cut at the limit.
QueryApproved ==
    SubSeq(InIdOrder(approved), 1, Min(Cardinality(approved), env.batchSize * 2))

RECURSIVE QueryByOps(_, _, _, _)
\* QueryItems(EPCIS_outbound, shipping_operation_id _in ops, limit): ids of the
\* first `limit` matching records from position i on, in store order.
QueryByOps(recs, ops, limit, i) ==
    IF i > Len(recs) \/ limit = 0 THEN <<>>
    ELSE IF recs[i].op \in ops
         THEN <<i>> \o QueryByOps(recs, ops, limit - 1, i + 1)
         ELSE QueryByOps(recs, ops, limit, i + 1)

\* dispatchLookup[op]: the last returned record of the operation, NoRec if none.
DispatchLookup(recs, found, op) ==
    LET m == {k \in 1..Len(found) : recs[found[k]].op = op}
    IN  IF m = {} THEN NoRec ELSE found[MaxOf(m)]

\* ShouldRetry with the ceiling itself still counted as below it.
ShouldRetryInclusive(count, maxAttempts) == count <= maxAttempts

ShouldRetry(count, maxAttempts) == count < maxAttempts

\* The switch without its "Acknowledged" label: only "Sent" is skipped.
ShouldDispatchSentOnly(recs, rid) ==
    IF rid = NoRec THEN TRUE
    ELSE CASE recs[rid].status = "Sent" -> FALSE
           [] recs[rid].status \in {"Failed", "Retrying"} ->
                  ShouldRetry(recs[rid].count, MaxAttempts)
           [] OTHER -> TRUE

\* The switch with a default branch that skips: nothing interrupted is resumed.
ShouldDispatchNoResume(recs, rid) ==
    IF rid = NoRec THEN TRUE
    ELSE CASE recs[rid].status \in {"Acknowledged", "Sent"} -> FALSE
           [] recs[rid].status \in {"Failed", "Retrying"} ->
                  ShouldRetry(recs[rid].count, MaxAttempts)
           [] OTHER -> FALSE

\* The switch on dispatchRecord.Status of PollApprovedShipments.
ShouldDispatch(recs, rid) ==
    IF rid = NoRec THEN TRUE
    ELSE CASE recs[rid].status \in {"Acknowledged", "Sent"} -> FALSE
           [] recs[rid].status \in {"Failed", "Retrying"} ->
                  ShouldRetry(recs[rid].count, MaxAttempts)
           [] OTHER -> TRUE

RECURSIVE PollLoop(_, _, _, _, _)
\* The filter loop: append the eligible shipments, stop at batchSize results.
PollLoop(recs, shipments, found, i, results) ==
    IF i > Len(shipments) THEN results
    ELSE LET op  == shipments[i]
             rid == DispatchLookup(recs, found, op)
             res == IF ShouldDispatch(recs, rid)
                    THEN Append(results, [op |-> op, rec |-> rid])
                    ELSE results
         IN  IF Len(res) >= env.batchSize THEN res
             ELSE PollLoop(recs, shipments, found, i + 1, res)

PollApprovedShipments(recs) ==
    LET shipments == QueryApproved
        shipOpIDs == {shipments[i] : i \in 1..Len(shipments)}
        found     == QueryByOps(recs, shipOpIDs, Len(shipments), 1)
    IN  PollLoop(recs, shipments, found, 1, <<>>)

\* ------------------------------------------------------------ pipeline run
\* no codec call is in progress (the pipeline runs are looked at on their own)
NoCall ==
    [fn |-> "none", s |-> <<>>, length |-> 0, form |-> "none", seg1 |-> <<>>,
     seg2 |-> <<>>, out |-> <<>>, done |-> FALSE]

Idle ==
    [pc |-> "idle", approvedShipments |-> <<>>, enhancedDocuments |-> <<>>,
     dispatchRecords |-> <<>>, dispatchResults |-> <<>>, allToCheck |-> <<>>,
     idx |-> 0, failedCount |-> 0, dispatchRecordID |-> NoRec,
     attemptCount |-> 0, outcome |-> "",
     queryErr |-> FALSE, cancelled |-> FALSE, returned |-> ""]

\* Run has returned to the run handler: "ok" for nil, "error" for an error; the
\* task-local variables are as the last task left them.
Done(r, res) == [r EXCEPT !.pc = "done", !.returned = res]

\* A deployment whose pipeline runs may overlap, on an empty EPCIS_outbound.
Init ==
    /\ records = <<>>
    /\ run = [c \in Cycles |-> Idle]
    /\ env = [ops |-> 1..ConcOps, batchSize |-> 1, idKind |-> "string", capped |-> TRUE,
              hist |-> FALSE]
    /\ approved = {}
    /\ started = 0
    /\ codec = NoCall

\* A deployment that runs one pipeline run at a time, on an empty EPCIS_outbound.
InitSeq ==
    /\ records = <<>>
    /\ run = [c \in Cycles |-> Idle]
    /\ \/ \E b \in 1..BatchSize :
              env = [ops |-> 1..Min(NumOps, MaxWork \div b), batchSize |-> b,
                     idKind |-> "string", capped |-> FALSE, hist |-> FALSE]
       \/ env = [ops |-> 1..NumericOps, batchSize |-> 1, idKind |-> "number",
                 capped |-> FALSE, hist |-> FALSE]
    /\ approved = {}
    /\ started = 0
    /\ codec = NoCall

\* A deployment with one shipping operation that runs one pipeline run at a
\* time, on an empty EPCIS_outbound, with the history kept.
InitHist ==
    /\ records = <<>>
    /\ run = [c \in Cycles |-> Idle]
    /\ env = [ops |-> {1}, batchSize |-> 1, idKind |-> "string", capped |-> FALSE,
              hist |-> TRUE]
    /\ approved = {}
    /\ started = 0
    /\ codec = NoCall

\* Upstream approves a shipping operation (outside this pipeline).
Approve ==
    /\ \E op \in env.ops \ approved : approved' = approved \cup {op}
    /\ UNCHANGED <<records, run, started, env, codec>>

\* poll_approved_shipments: the run starts from the store alone.
Poll(c) ==
    /\ run[c].pc = "idle"
    /\ UNCHANGED <<env, approved, codec>>
    /\ env.capped => started < ConcRuns
    /\ started' = IF env.capped THEN started + 1 ELSE started
    /\ run' = [run EXCEPT ![c] =
                 [Idle EXCEPT !.pc = "build",
                              !.approvedShipments = PollApprovedShipments(records)]]
    /\ UNCHANGED records

RECURSIVE Pick(_, _, _)
\* the elements of s at the positions in keep, in order, from position i on
Pick(s, keep, i) ==
    IF i > Len(s) THEN <<>>
    ELSE (IF i \in keep THEN <<s[i]>> ELSE <<>>) \o Pick(s, keep, i + 1)

\* query_shipment_events, build_epcis_documents, add_xml_headers: shipments
\* without events or whose document cannot be built are dropped; with no
\* document left (or a task error) the run ends without touching the store.
BuildDocuments(c) ==
    /\ run[c].pc = "build"
    /\ UNCHANGED <<env, started, approved, codec>>
    /\ \E keep \in SUBSET (1..Len(run[c].approvedShipments)) :
         LET docs == Pick(run[c].approvedShipments, keep, 1)
         IN  run' = [run EXCEPT ![c] =
                       IF docs = <<>> THEN Done(@, "ok")
                       ELSE [@ EXCEPT !.pc = "manage", !.approvedShipments = <<>>,
                                      !.enhancedDocuments = docs, !.idx = 1]]
    /\ UNCHANGED records

\* A guard that also aborts at the threshold itself.
ExceedsThresholdInclusive(failed, total) ==
    total > 0 /\ failed * ThresholdDen >= ThresholdNum * total

\* Batch Guard: failureRate > cfg.FailureThreshold
ExceedsThreshold(failed, total) ==
    total > 0 /\ failed * ThresholdDen > ThresholdNum * total

\* ManageDispatchRecords, after the loop body of document idx: the next
\* document, or the failure-threshold check and the hand-over to dispatch.
ManageNext(r) ==
    IF r.idx < Len(r.enhancedDocuments)
    THEN [r EXCEPT !.idx = @ + 1, !.dispatchRecordID = NoRec]
    ELSE IF ExceedsThreshold(r.failedCount, Len(r.enhancedDocuments))
         THEN Done([r EXCEPT !.dispatchRecords = <<>>], "error")
         ELSE IF r.dispatchRecords = <<>>
         THEN Done(r, "ok")
         ELSE [r EXCEPT !.pc = "dispatch", !.enhancedDocuments = <<>>, !.idx = 1,
                        !.failedCount = 0, !.dispatchRecordID = NoRec]

\* ManageDispatchRecords: CreateDispatchRecord for a document without a record.
ManageCreate(c) ==
    LET r   == run[c]
        doc == r.enhancedDocuments[r.idx]
    IN  /\ r.pc = "manage"
        /\ UNCHANGED <<env, started, approved, codec>>
        /\ doc.rec = NoRec
        /\ r.dispatchRecordID = NoRec
        /\ \/ /\ Len(records) < MaxRecords
              /\ records' = Append(records, CreateDispatchRecord(doc.op))
              /\ run' = [run EXCEPT ![c].dispatchRecordID = Len(records) + 1]
           \/ /\ run' = [run EXCEPT ![c] = ManageNext([r EXCEPT !.failedCount = @ + 1])]
              /\ UNCHANGED records

\* history: one more run whose upload of the record's document failed
UploadFailed(r) ==
    IF env.hist THEN [r EXCEPT !.preFails = Min(@ + 1, MaxPreFails)] ELSE r

\* ManageDispatchRecords: the uploads and the status update of one document.
ManageUpdate(c) ==
    LET r   == run[c]
        doc == r.enhancedDocuments[r.idx]
        rid == IF doc.rec # NoRec THEN doc.rec ELSE r.dispatchRecordID
    IN  /\ r.pc = "manage"
        /\ UNCHANGED <<env, started, approved, codec>>
        /\ rid # NoRec
        /\ \E xmlOk, patchOk \in BOOLEAN :
             IF ~xmlOk
             THEN /\ records' = [records EXCEPT ![rid] =
                                   UploadFailed(IF patchOk
                                                THEN UpdateDispatchStatus(@, "Failed", NoUUID)
                                                ELSE @)]
                  /\ run' = [run EXCEPT ![c] = ManageNext([r EXCEPT !.failedCount = @ + 1])]
             ELSE IF patchOk
             THEN /\ records' = [records EXCEPT ![rid] =
                                   UpdateDispatchStatus(@, "Processing", NoUUID)]
                  /\ run' = [run EXCEPT ![c] = ManageNext(
                               [r EXCEPT !.dispatchRecords =
                                  Append(@, [op |-> doc.op, rec |-> rid,
                                             fresh |-> doc.rec = NoRec])])]
             ELSE /\ UNCHANGED records
                  /\ run' = [run EXCEPT ![c] = ManageNext([r EXCEPT !.failedCount = @ + 1])]

\* ------------------------------------------------------ dispatch executor
\* What SubmitEPCIS may end in: a 2xx answer with a transaction id, a 2xx answer
\* whose JSON carries no id, a 4xx or 5xx answer, a transport error, or the
\* request aborted because the caller's context was cancelled while in flight.
SubmitOutcomes == {"ok", "okNoId", "http4xx", "http5xx", "transport", "cancelled"}

Accepted == {"ok", "okNoId"}

\* calls made with a context of their own, which is never cancelled
BackgroundCtx(r) == FALSE

\* the ctx the tasks hand to their calls is the run's ctx: is it cancelled?
CallerCtx(r) == r.cancelled

\* A record-store call made with a cancelled context is aborted.
StoreCallAborts(ctxDone) == ctxDone

\* TrustMedClient.GetStatusCodeFromError: the code found in the error text,
\* 500 when there is none (timeouts, connection errors).
GetStatusCodeFromError(o) ==
    CASE o = "http4xx" -> 400
      [] o = "http5xx" -> 500
      [] OTHER -> 500

\* finalStatus that escalates one attempt late.
FinalStatusLate(count, httpStatus) ==
    IF count > MaxAttempts THEN "failed" ELSE "retrying"

\* "Determine if should retry": finalStatus of a failed submission.
FinalStatus(count, httpStatus) ==
    IF count >= MaxAttempts THEN "failed" ELSE "retrying"

\* capitalizeStatus: first letter to upper case.
capitalizeStatus(st) ==
    CASE st = "retrying" -> "Retrying"
      [] st = "failed" -> "Failed"
      [] st = "sent" -> "Sent"
      [] OTHER -> st

\* DispatchViaTrustMed, after the loop body of record idx: the result is
\* appended; then the next record, or the results go to poll_dispatch_confirmation.
DispatchNext(r, result) ==
    LET res == Append(r.dispatchResults, result)
    IN  IF r.idx < Len(r.dispatchRecords)
        THEN [r EXCEPT !.pc = "dispatch", !.dispatchResults = res, !.idx = @ + 1,
                       !.attemptCount = 0, !.outcome = ""]
        ELSE [r EXCEPT !.pc = "confirm", !.dispatchResults = res, !.idx = 0,
                       !.dispatchRecords = <<>>, !.attemptCount = 0, !.outcome = ""]

\* fresh and outcome are history fields: the record was created by this run; what
\* the read of the payload or the submission ended in ("" when neither was reached).
DispatchResult(rec, status, uuid, o) ==
    [op |-> rec.op, rec |-> rec.rec, status |-> status, uuid |-> uuid,
     fresh |-> rec.fresh, outcome |-> o]

\* IncrementDispatchAttempt, first half: QueryItems reads dispatch_attempt_count.
IncrementRead(c) ==
    LET r   == run[c]
        rec == r.dispatchRecords[r.idx]
    IN  /\ r.pc = "dispatch"
        /\ UNCHANGED <<env, started, approved, codec>>
        /\ \/ /\ records[rec.rec].incs < MaxIncs
              /\ ~StoreCallAborts(CallerCtx(r))
              /\ run' = [run EXCEPT ![c] =
                           [r EXCEPT !.pc = "increment",
                                     !.attemptCount = records[rec.rec].count]]
           \/ run' = [run EXCEPT ![c] =
                        DispatchNext(r, DispatchResult(rec, "failed", NoUUID, ""))]
        /\ UNCHANGED records

\* An increment that writes the count it read.
NewCountStale(currentCount) == currentCount

\* newCount := currentCount + 1
NewCount(currentCount) == currentCount + 1

\* IncrementDispatchAttempt, second half: PatchItem writes newCount.
IncrementWrite(c) ==
    LET r   == run[c]
        rec == r.dispatchRecords[r.idx]
    IN  /\ r.pc = "increment"
        /\ UNCHANGED <<env, started, approved, codec>>
        /\ \/ /\ records' = [records EXCEPT ![rec.rec] =
                               [@ EXCEPT !.count = NewCount(r.attemptCount),
                                         !.incs = @ + 1]]
              /\ run' = [run EXCEPT ![c] =
                           [r EXCEPT !.pc = "submit",
                                     !.attemptCount = NewCount(r.attemptCount)]]
           \/ /\ run' = [run EXCEPT ![c] =
                           DispatchNext(r, DispatchResult(rec, "failed", NoUUID, ""))]
              /\ UNCHANGED records

\* cms.GetFileContent, then trustmedClient.SubmitEPCIS: the payload is read and
\* submitted; the outcome waits for its status write.
Submit(c) ==
    LET r   == run[c]
        rec == r.dispatchRecords[r.idx]
    IN  /\ r.pc = "submit"
        /\ UNCHANGED <<env, started, approved, codec>>
        /\ \/ /\ run' = [run EXCEPT ![c] = [r EXCEPT !.pc = "status", !.outcome = "xmlfail"]]
              /\ UNCHANGED records
           \/ \E o \in SubmitOutcomes :
                /\ run' = [run EXCEPT ![c] =
                             [r EXCEPT !.pc = "status", !.outcome = o,
                                       !.cancelled = (o = "cancelled")]]
                /\ records' = [records EXCEPT
                                 ![rec.rec].subs = @ + 1,
                                 ![rec.rec].acc = @ \/ (env.hist /\ o \in Accepted)]

\* The status the loop body writes for an outcome, and the result it reports.
StatusFor(o, count) ==
    CASE o = "xmlfail" -> "failed"
      [] o \in Accepted -> "sent"
      [] OTHER -> FinalStatus(count, GetStatusCodeFromError(o))

\* UpdateDispatchStatus after GetFileContent / SubmitEPCIS (its error is not
\* looked at), and the result appended for the record.
StatusWrite(c) ==
    LET r   == run[c]
        rec == r.dispatchRecords[r.idx]
        o   == r.outcome
        st  == StatusFor(o, r.attemptCount)
        uu  == IF o = "ok" THEN rec.rec ELSE NoUUID
    IN  /\ r.pc = "status"
        /\ UNCHANGED <<env, started, approved, codec>>
        /\ \E patchOk \in BOOLEAN :
             /\ StoreCallAborts(CallerCtx(r)) => ~patchOk
             /\ records' =
                        IF ~patchOk THEN records
                        ELSE [records EXCEPT ![rec.rec] =
                                IF o \in Accepted
                                THEN UpdateDispatchStatus(@, "Acknowledged", uu)
                                ELSE UpdateDispatchStatus(@, capitalizeStatus(st), NoUUID)]
        /\ run' = [run EXCEPT ![c] =
                     DispatchNext(r, DispatchResult(rec, st, uu, o))]

\* ------------------------------------------------- confirmation reconciler
\* id, _ := rec["id"].(string): the assertion yields "" for a numeric id.
AsString(id) == IF env.idKind = "string" THEN id ELSE NoRec

RECURSIVE SentResults(_, _)
\* the results with Status == "sent" and a TrustMedUUID, from position i on
SentResults(results, i) ==
    IF i > Len(results) THEN <<>>
    ELSE (IF results[i].status = "sent" /\ results[i].uuid # NoUUID
          THEN <<[rec |-> results[i].rec, uuid |-> results[i].uuid]>>
          ELSE <<>>) \o SentResults(results, i + 1)

RECURSIVE AcknowledgedRecords(_, _)
\* QueryItems(EPCIS_outbound, status = Acknowledged, trustmed_uuid not null,
\* trustmed_status null), as the entries the loop appends to allToCheck
AcknowledgedRecords(recs, i) ==
    IF i > Len(recs) THEN <<>>
    ELSE (IF recs[i].status = "Acknowledged" /\ recs[i].uuid # NoUUID
             /\ recs[i].tmStatus = "null"
          THEN <<[rec |-> AsString(i), uuid |-> recs[i].uuid]>>
          ELSE <<>>) \o AcknowledgedRecords(recs, i + 1)

\* PollDispatchConfirmation up to its loop: nothing to do without a sent result;
\* otherwise the stored acknowledged records are appended to the sent results.
ConfirmStart(c) ==
    LET r    == run[c]
        sent == SentResults(r.dispatchResults, 1)
    IN  /\ r.pc = "confirm"
        /\ UNCHANGED <<env, started, approved, codec>>
        /\ IF sent = <<>>
           THEN run' = [run EXCEPT ![c] = Done(r, "ok")]
           ELSE \E queryOk \in BOOLEAN :
                  /\ StoreCallAborts(CallerCtx(r)) => ~queryOk
                  /\ run' = [run EXCEPT ![c] =
                            [r EXCEPT !.pc = "check", !.idx = 1, !.dispatchResults = <<>>,
                                      !.queryErr = ~queryOk,
                                      !.allToCheck =
                                          sent \o (IF queryOk
                                                   THEN AcknowledgedRecords(records, 1)
                                                   ELSE <<>>)]]
        /\ UNCHANGED records

\* What the partner's dashboard may answer for a transaction.
PartnerAnswers ==
    { [code |-> 200, msg |-> "acknowledged"], [code |-> 2, msg |-> "in progress"],
      [code |-> 400, msg |-> "rejected"], [code |-> 500, msg |-> "error"] }

\* mapTrustMedStatus
mapTrustMedStatus(code, msg) ==
    CASE code = 200 /\ msg = "acknowledged" ->
             [status |-> "Acknowledged", isDelivered |-> TRUE, isPermanent |-> TRUE]
      [] code = 200 /\ msg = "processing" ->
             [status |-> "Processing", isDelivered |-> FALSE, isPermanent |-> FALSE]
      [] code >= 400 /\ code < 500 ->
             [status |-> "Failed", isDelivered |-> FALSE, isPermanent |-> TRUE]
      [] code >= 500 ->
             [status |-> "Retrying", isDelivered |-> FALSE, isPermanent |-> FALSE]
      [] OTHER ->
             [status |-> "Processing", isDelivered |-> FALSE, isPermanent |-> FALSE]

\* A patch that also writes the partner's status into the lifecycle status.
ConfirmationUpdateWithStatus(rec, st) ==
    [rec EXCEPT !.tmStatus = st.status, !.status = st.status,
                !.confirmed = IF st.isDelivered THEN TRUE ELSE @]

\* A patch that sets date_confirmed whatever the partner answered.
ConfirmationUpdateStamped(rec, st) ==
    [rec EXCEPT !.tmStatus = st.status, !.confirmed = TRUE]

\* The updates PollDispatchConfirmation patches into a record.
ConfirmationUpdate(rec, st) ==
    [rec EXCEPT !.tmStatus = st.status,
                !.confirmed = IF st.isDelivered THEN TRUE ELSE @]

\* PollDispatchConfirmation, after the loop body of entry idx.
CheckNext(r) ==
    IF r.idx < Len(r.allToCheck) THEN [r EXCEPT !.idx = @ + 1] ELSE Done(r, "ok")

\* PollDispatchConfirmation, one loop body: the partner is asked for the status
\* of the transaction and the answer is patched into the record of the entry.
\* A patch addressed to the empty id reaches no record.
CheckItem(c) ==
    LET r    == run[c]
        item == r.allToCheck[r.idx]
    IN  /\ r.pc = "check"
        /\ UNCHANGED <<env, started, approved, codec>>
        /\ \/ /\ run' = [run EXCEPT ![c] = CheckNext(r)]
              /\ UNCHANGED records
           \/ \E a \in PartnerAnswers, patchOk \in BOOLEAN :
                /\ ~CallerCtx(r)
                /\ records' = IF patchOk /\ item.rec # NoRec
                              THEN [records EXCEPT ![item.rec] =
                                      ConfirmationUpdate(@, mapTrustMedStatus(a.code, a.msg))]
                              ELSE records
                /\ run' = [run EXCEPT ![c] = CheckNext(r)]

\* The process stops between two calls; the next run starts from the store alone.
Crash(c) ==
    /\ run[c].pc \notin {"idle", "done"}
    /\ UNCHANGED <<env, started, approved, codec>>
    /\ run' = [run EXCEPT ![c] = Idle]
    /\ UNCHANGED records

\* The run handler answers the request; the run's variables are gone.
Return(c) ==
    /\ run[c].pc = "done"
    /\ UNCHANGED <<env, started, approved, codec>>
    /\ run' = [run EXCEPT ![c] = Idle]
    /\ UNCHANGED records

Step(c) ==
    \/ Poll(c)
    \/ BuildDocuments(c)
    \/ ManageCreate(c)
    \/ ManageUpdate(c)
    \/ IncrementRead(c)
    \/ IncrementWrite(c)
    \/ Submit(c)
    \/ StatusWrite(c)
    \/ ConfirmStart(c)
    \/ CheckItem(c)
    \/ Crash(c)
    \/ Return(c)

\* Runs may overlap: the run handler starts a run per request, without a lock.
Next == Approve \/ \E c \in Cycles : Step(c)

Spec == Init /\ [][Next]_vars

\* One run at a time (a scheduler that waits for the previous run).
NextSeq == Approve \/ \E c \in SeqCycles : Step(c)

SpecSeq == InitSeq /\ [][NextSeq]_vars

SpecHist == InitHist /\ [][NextSeq]_vars

\* ------------------------------------------------------ GS1 identifier codec
\* A string is a sequence of characters.  The scheme prefix of a URN, the host
\* of a digital link and an application identifier with its slashes ("/414/")
\* are one character each: the inputs never hold a part of one of them.
Digit == <<"0", "1", "2", "3", "4", "5", "6", "7", "8", "9">>

IsDigit(ch) == \E k \in 1..10 : Digit[k] = ch

\* int(base[i] - '0')
DigitValue(ch) == (CHOOSE k \in 1..10 : Digit[k] = ch) - 1

RECURSIVE WeightedSum(_, _)
\* the loop of CalculateGS1CheckDigit over base[1..i]: a digit at an even
\* distance from the right end counts three times, a non-digit is skipped
WeightedSum(base, i) ==
    IF i = 0 THEN 0
    ELSE (IF ~IsDigit(base[i]) THEN 0
          ELSE IF (Len(base) - i) % 2 = 0 THEN DigitValue(base[i]) * 3
          ELSE DigitValue(base[i]))
         + WeightedSum(base, i - 1)

CalculateGS1CheckDigit(base) ==
    IF base = <<>> THEN <<>>
    ELSE <<Digit[((10 - (WeightedSum(base, Len(base)) % 10)) % 10) + 1]>>

\* strings.Repeat("0", n)
Zeros(n) == [k \in 1..n |-> "0"]

normalizeToLength(s, length) ==
    IF Len(s) < length THEN Zeros(length - Len(s)) \o s
    ELSE IF Len(s) > length THEN SubSeq(s, 1, length)
    ELSE s

\* strings.Contains, for a separator of one character
Contains(s, sep) == \E k \in 1..Len(s) : s[k] = sep

\* strings.Index, for a separator of one character: from 0, -1 when absent
Index(s, sep) ==
    IF Contains(s, sep)
    THEN (CHOOSE k \in 1..Len(s) : s[k] = sep /\ \A j \in 1..(k - 1) : s[j] # sep) - 1
    ELSE -1

RECURSIVE Split(_, _)
\* strings.Split
Split(s, sep) ==
    IF ~Contains(s, sep) THEN <<s>>
    ELSE LET i == Index(s, sep) + 1
         IN  <<SubSeq(s, 1, i - 1)>> \o Split(SubSeq(s, i + 1, Len(s)), sep)

\* strings.CutPrefix / strings.HasPrefix, for a prefix of one character
HasPrefix(s, prefix) == s # <<>> /\ s[1] = prefix

\* "Remove any trailing path elements": cut at the first "/" unless it leads
TrimPath(id) ==
    LET idx == Index(id, "/") IN IF idx > 0 THEN SubSeq(id, 1, idx) ELSE id

\* ParseGLNFromSGLN, one round of the loop over the application identifiers
DigitalLinkGLN(sglnURN, ai) ==
    IF ~Contains(sglnURN, ai) THEN <<>>
    ELSE LET gln == TrimPath(Split(sglnURN, ai)[2])
         IN  IF Len(gln) = 13 THEN gln ELSE <<>>

ParseGLNFromSGLN(sglnURN) ==
    IF sglnURN = <<>> THEN <<>>
    ELSE IF HasPrefix(sglnURN, "urn:epc:id:sgln:")
    THEN LET segments == Split(Tail(sglnURN), ".")
         IN  IF Len(segments) < 2 THEN <<>>
             ELSE LET gln12 == normalizeToLength(segments[1] \o segments[2], 12)
                  IN  gln12 \o CalculateGS1CheckDigit(gln12)
    ELSE IF DigitalLinkGLN(sglnURN, "/414/") # <<>>
    THEN DigitalLinkGLN(sglnURN, "/414/")
    ELSE DigitalLinkGLN(sglnURN, "/417/")

\* A parser that takes the item reference from the last segment of the URN.
ParseGTINFromLastSegment(sgtinURN) ==
    IF HasPrefix(sgtinURN, "urn:epc:id:sgtin:") \/ HasPrefix(sgtinURN, "urn:epc:idpat:sgtin:")
    THEN LET segments == Split(Tail(sgtinURN), ".")
             last     == segments[Len(segments)]
             gtin13   == normalizeToLength(segments[1] \o last, 13)
         IN  gtin13 \o CalculateGS1CheckDigit(gtin13)
    ELSE <<>>

ParseGTINFromSGTIN(sgtinURN) ==
    IF sgtinURN = <<>> THEN <<>>
    ELSE IF HasPrefix(sgtinURN, "urn:epc:id:sgtin:")
            \/ HasPrefix(sgtinURN, "urn:epc:idpat:sgtin:")
    THEN LET segments == Split(Tail(sgtinURN), ".")
         IN  IF Len(segments) < 2 THEN <<>>
             ELSE LET companyPrefix       == segments[1]
                      indicatorAndItemRef == segments[2]
                      indicator == IF Len(indicatorAndItemRef) > 0
                                   THEN <<indicatorAndItemRef[1]>> ELSE <<"0">>
                      itemRef   == IF Len(indicatorAndItemRef) > 0
                                   THEN Tail(indicatorAndItemRef)
                                   ELSE indicatorAndItemRef
                      gtin13    == normalizeToLength(
                                       indicator \o companyPrefix \o itemRef, 13)
                  IN  gtin13 \o CalculateGS1CheckDigit(gtin13)
    ELSE IF Contains(sgtinURN, "/01/")
    THEN LET gtin == TrimPath(Split(sgtinURN, "/01/")[2])
         IN  IF Len(gtin) >= 14 THEN SubSeq(gtin, 1, 14) ELSE <<>>
    ELSE <<>>

ParseSSCCFromURN(ssccURN) ==
    IF ssccURN = <<>> THEN <<>>
    ELSE IF HasPrefix(ssccURN, "urn:epc:id:sscc:")
    THEN LET segments == Split(Tail(ssccURN), ".")
         IN  IF Len(segments) < 2 THEN <<>>
             ELSE LET sscc17 == normalizeToLength(segments[1] \o segments[2], 17)
                  IN  sscc17 \o CalculateGS1CheckDigit(sscc17)
    ELSE IF Contains(ssccURN, "/00/")
    THEN LET sscc == TrimPath(Split(ssccURN, "/00/")[2])
         IN  IF Len(sscc) >= 18 THEN SubSeq(sscc, 1, 18) ELSE <<>>
    ELSE <<>>

\* ------------------------------------------------------------ codec inputs
\* the digit string of length len that counts up from digit d + 1
Ramp(d, len) == [k \in 1..len |-> Digit[((d + k) % 10) + 1]]

Seeds == 0..MaxSeed

\* digit strings of the given lengths
Ramps(lens) == {Ramp(d, len) : d \in Seeds, len \in lens}

\* what may follow the identifier in a digital link: nothing, or a serial path
LinkTails == {<<>>, <<"/", "2", "1", "/", "7">>}

\* the identifiers a digital link may carry where one of n digits is expected:
\* well-formed ones (check digit right), and any digits of n - 1, n or n + 1
LinkIds(n) ==
    {Ramp(d, n - 1) \o CalculateGS1CheckDigit(Ramp(d, n - 1)) : d \in Seeds}
        \cup Ramps({n - 1, n, n + 1})

URN(prefix, seg1, seg2, rest) == <<prefix>> \o seg1 \o <<".">> \o seg2 \o rest

Link(ai, id, tail) == <<"https://id.gs1.org", ai>> \o id \o tail

Call(fn, form, s, seg1, seg2) ==
    [NoCall EXCEPT !.fn = fn, !.form = form, !.s = s, !.seg1 = seg1, !.seg2 = seg2]

NormalizeCalls ==
    {[NoCall EXCEPT !.fn = "normalizeToLength", !.s = s, !.length = n] :
        s \in Ramps(0..MaxLen), n \in 0..MaxLen}

LocationCalls ==
    {Call("ParseGLNFromSGLN", "urn", URN("urn:epc:id:sgln:", cp, ref, <<".", "0">>), cp, ref) :
        cp \in Ramps({6, 7}), ref \in Ramps({0, 5, 6})}
    \cup {Call("ParseGLNFromSGLN", "link", Link(ai, id, tail), <<>>, <<>>) :
            ai \in {"/414/", "/417/"}, id \in LinkIds(13), tail \in LinkTails}

\* the serial segments of a trade-item URN: a serial, or the idpat wildcard
Serials(prefix) ==
    IF prefix = "urn:epc:idpat:sgtin:" THEN {<<".", "*">>}
    ELSE {<<".">> \o serial : serial \in Ramps({3})}

TradeItemURNs(cp, item) ==
    {URN(prefix, cp, item, rest) :
        <<prefix, rest>> \in
            UNION {{<<p, r>> : r \in Serials(p)} :
                     p \in {"urn:epc:id:sgtin:", "urn:epc:idpat:sgtin:"}}}

TradeItemCalls ==
    UNION {{Call("ParseGTINFromSGTIN", "urn", u, cp, item) : u \in TradeItemURNs(cp, item)} :
             <<cp, item>> \in Ramps({6, 7}) \X Ramps({0, 5, 6})}
    \cup {Call("ParseGTINFromSGTIN", "link", Link("/01/", id, tail), <<>>, <<>>) :
            id \in LinkIds(14), tail \in LinkTails}

LogisticUnitCalls ==
    {Call("ParseSSCCFromURN", "urn", URN("urn:epc:id:sscc:", cp, ref, <<>>), cp, ref) :
        cp \in Ramps({7}), ref \in Ramps({9, 10, 11})}
    \cup {Call("ParseSSCCFromURN", "link", Link("/00/", id, tail), <<>>, <<>>) :
            id \in LinkIds(18), tail \in LinkTails}

\* A caller of the codec with its input; the pipeline does not run.
InitCodec ==
    /\ records = <<>>
    /\ run = [c \in Cycles |-> Idle]
    /\ env = [ops |-> {}, batchSize |-> 1, idKind |-> "string", capped |-> FALSE,
              hist |-> FALSE]
    /\ approved = {}
    /\ started = 0
    /\ codec \in NormalizeCalls \cup LocationCalls \cup TradeItemCalls
                    \cup LogisticUnitCalls

\* A call returns: the result of the function on the input.
CallNormalizeToLength ==
    /\ codec.fn = "normalizeToLength"
    /\ ~codec.done
    /\ codec' = [codec EXCEPT !.out = normalizeToLength(codec.s, codec.length), !.done = TRUE]
    /\ UNCHANGED <<records, run, approved, started, env>>

CallParseGLNFromSGLN ==
    /\ codec.fn = "ParseGLNFromSGLN"
    /\ ~codec.done
    /\ codec' = [codec EXCEPT !.out = ParseGLNFromSGLN(codec.s), !.done = TRUE]
    /\ UNCHANGED <<records, run, approved, started, env>>

CallParseGTINFromSGTIN ==
    /\ codec.fn = "ParseGTINFromSGTIN"
    /\ ~codec.done
    /\ codec' = [codec EXCEPT !.out = ParseGTINFromSGTIN(codec.s), !.done = TRUE]
    /\ UNCHANGED <<records, run, approved, started, env>>

CallParseSSCCFromURN ==
    /\ codec.fn = "ParseSSCCFromURN"
    /\ ~codec.done
    /\ codec' = [codec EXCEPT !.out = ParseSSCCFromURN(codec.s), !.done = TRUE]
    /\ UNCHANGED <<records, run, approved, started, env>>

NextCodec ==
    \/ CallNormalizeToLength
    \/ CallParseGLNFromSGLN
    \/ CallParseGTINFromSGTIN
    \/ CallParseSSCCFromURN

SpecCodec == InitCodec /\ [][NextCodec]_vars

\* ------------------------------------------------------------------ claims
RecIds == 1..Len(records)

\* the step of run c that ends the loop body of a dispatched record: the status
\* write of StatusWrite with its result appended
IsStatusWrite(c) ==
    /\ run[c].pc = "status"
    /\ run'[c].pc \in {"dispatch", "confirm"}

\* the record the run is dispatching
Current(c) == run[c].dispatchRecords[run[c].idx]

\* the result the run appended last
LastResult(r) == r.dispatchResults[Len(r.dispatchResults)]

\* C1: over any sequence of dispatch cycles, with crashes and failed record
\* writes, neither the stored attempt-count of a record nor the number of
\* submissions made for it exceeds maxAttempts.
C1_AttemptsBounded ==
    \A i \in RecIds : records[i].count <= MaxAttempts /\ records[i].subs <= MaxAttempts

\* C2: when overlapping runs have finished, the attempt-count of every record
\* equals the number of increments made for it: none lost, none applied twice.
C2_NoLostIncrement ==
    (\A c \in Cycles : run[c].pc = "idle")
        => \A i \in RecIds : records[i].count = records[i].incs

\* C3: once a record is Acknowledged, no step of any run changes its status.
C3_AcknowledgedIsFinal ==
    [][\A i \in RecIds : records[i].status = "Acknowledged"
                            => records'[i].status = "Acknowledged"]_vars

\* C4: a submission rejected with a 4xx response is reported as failed and, when
\* the status write is applied, leaves the record Failed, whatever its attempt-count.
C4_ClientErrorIsFailed ==
    [][\A c \in Cycles :
          IsStatusWrite(c) /\ run[c].outcome = "http4xx"
              => /\ LastResult(run'[c]).status = "failed"
                 /\ records' # records => records'[Current(c).rec].status = "Failed"]_vars

Transient == {"http5xx", "transport"}

Returned(r, i) == \E k \in 1..Len(r.approvedShipments) : r.approvedShipments[k].rec = i

C10_QueriedOnce ==
    \A c \in Cycles :
        run[c].pc = "check"
            => \A j \in 1..(run[c].idx - 1) :
                   run[c].allToCheck[j].uuid # run[c].allToCheck[run[c].idx].uuid

\* the transactions a run that has returned queried at the partner
Queried(r) == {r.allToCheck[k].uuid : k \in 1..Len(r.allToCheck)}

\* a run that returned normally, with its context alive and its store query answered
ReturnedOk(r) ==
    r.pc = "done" /\ r.returned = "ok" /\ ~r.cancelled /\ ~r.queryErr

\* record i is acknowledged and no confirmation has been stored for it yet
Unconfirmed(i) ==
    /\ records[i].status = "Acknowledged"
    /\ records[i].uuid # NoUUID
    /\ records[i].tmStatus = "null"

\* C11: a cycle that has returned normally has queried the partner for every
\* acknowledged record without a stored confirmation, also when the cycle itself
\* acknowledged nothing.
C11_ReconciliationIndependent ==
    \A c \in Cycles :
        ReturnedOk(run[c])
            => \A i \in RecIds : Unconfirmed(i) => records[i].uuid \in Queried(run[c])

\* record i is acknowledged and its stored confirmation is a pending one
\* (neither delivered nor permanent)
Pending(i) ==
    /\ records[i].status = "Acknowledged"
    /\ records[i].uuid # NoUUID
    /\ records[i].tmStatus \in {"Processing", "Retrying"}

\* C12: a cycle that reconciled (it queried the partner for something) has
\* queried every acknowledged record whose confirmation is still pending.
C12_PendingRequeried ==
    \A c \in Cycles :
        ReturnedOk(run[c]) /\ run[c].allToCheck # <<>>
            => \A i \in RecIds : Pending(i) => records[i].uuid \in Queried(run[c])

C14_CancellationStopsDispatch ==
    \A c \in Cycles :
        run[c].cancelled
            => /\ \A k \in 1..Len(run[c].dispatchResults) :
                      run[c].dispatchResults[k].outcome = "cancelled"
                          => k = Len(run[c].dispatchResults)
               /\ run[c].pc \notin {"confirm", "check"}
               /\ run[c].pc = "done" => run[c].returned = "error"

C16_DispatchAppliesGuard ==
    \A c \in Cycles :
        run[c].pc = "confirm"
            => LET res    == run[c].dispatchResults
                   failed == Cardinality({k \in 1..Len(res) :
                                             res[k].status \in {"failed", "retrying"}})
               IN  failed * ThresholdDen <= ThresholdNum * Len(res)

\* the dispatch record of a shipping operation, NoRec when it has none
RecordOf(op) ==
    LET m == {i \in RecIds : records[i].op = op}
    IN  IF m = {} THEN NoRec ELSE MaxOf(m)

\* C17: a selection that does not fill the batch returns every eligible approved
\* shipping operation: nothing eligible is left out except for the batch size.
C17_EligibleDeferredNotDropped ==
    [][\A c \in Cycles :
          /\ run[c].pc = "idle" /\ run'[c].pc = "build"
          /\ Len(run'[c].approvedShipments) < env.batchSize
          => \A op \in approved :
                 ShouldDispatch(records, RecordOf(op))
                     => \E k \in 1..Len(run'[c].approvedShipments) :
                            run'[c].approvedShipments[k].op = op]_vars

\* C18: every Acknowledged record carries a partner transaction identifier and
\* an acknowledgement timestamp.
C18_AcknowledgedHasTransaction ==
    \A i \in RecIds :
        records[i].status = "Acknowledged"
            => records[i].uuid # NoUUID /\ records[i].ackDate

\* C19: no two dispatch records belong to the same shipping operation.
C19_OneRecordPerOperation ==
    \A i, j \in RecIds : records[i].op = records[j].op => i = j

\* C20: no step of any run lowers the stored attempt-count of a record.
C20_CountNeverDecreases ==
    [][\A i \in RecIds : records'[i].count >= records[i].count]_vars

\* run c takes a step of PollDispatchConfirmation
IsReconciliationStep(c) ==
    /\ run[c].pc \in {"confirm", "check"}
    /\ run'[c].pc \in {"check", "done"}
    /\ run'[c] # run[c]

\* C21: a step of reconciliation leaves the attempt-count of every record as it
\* was and makes no record eligible for candidate selection that was not
\* eligible before the step, whatever the partner answered.
C21_ReconciliationFrame ==
    [][\A c \in Cycles :
          IsReconciliationStep(c)
              => \A i \in RecIds :
                     /\ records'[i].count = records[i].count
                     /\ ShouldDispatch(records', i) => ShouldDispatch(records, i)]_vars

\* the partner rejected a transaction whose record is below the retry ceiling
C21_Witness ==
    \E c \in Cycles :
        /\ run[c].pc = "done"
        /\ run[c].allToCheck # <<>>
        /\ \E i \in RecIds : /\ records[i].status = "Acknowledged"
                             /\ records[i].tmStatus = "Failed"
                             /\ records[i].count < MaxAttempts

\* C22: a record gets its confirmation timestamp only in a reconciliation step
\* on that record whose mapped partner status is the delivered one
\* (Acknowledged); a record is created without it.
C22_ConfirmedOnlyWhenDelivered ==
    [][\A i \in 1..Len(records') :
          records'[i].confirmed
              => \/ i \in RecIds /\ records[i].confirmed
                 \/ /\ i \in RecIds
                    /\ records'[i].tmStatus = "Acknowledged"
                    /\ \E c \in Cycles :
                          /\ IsReconciliationStep(c)
                          /\ run[c].pc = "check"
                          /\ run[c].allToCheck[run[c].idx].rec = i]_vars

\* one record confirmed as delivered, another answered otherwise and unconfirmed
C22_Witness ==
    \E i, j \in RecIds :
        /\ records[i].confirmed /\ records[i].tmStatus = "Acknowledged"
        /\ records[j].tmStatus \in {"Failed", "Retrying", "Processing"}
        /\ ~records[j].confirmed

Interrupted == {"pending", "Processing"}

C24_UpdateUnderOwnIdentity ==
    \A c \in Cycles :
        run[c].pc = "check"
            => \A k \in 1..Len(run[c].allToCheck) :
                   /\ run[c].allToCheck[k].rec # NoRec
                   /\ run[c].allToCheck[k].rec = run[c].allToCheck[k].uuid

\* the stored status that matches a reported outcome
MatchingStatus(st) ==
    CASE st = "sent" -> "Acknowledged"
      [] st = "retrying" -> "Retrying"
      [] st = "failed" -> "Failed"

\* C30: when dispatch hands over its results, the stored status of every record
\* it reports on is the one matching the reported outcome.
C30_StoredStatusMatchesResult ==
    \A c \in Cycles :
        run[c].pc = "confirm"
            => \A k \in 1..Len(run[c].dispatchResults) :
                   LET res == run[c].dispatchResults[k]
                   IN  records[res.rec].status = MatchingStatus(res.status)

\* run c makes a submission for the record it is dispatching
IsSubmission(c) ==
    /\ run[c].pc = "submit"
    /\ run'[c].pc = "status"
    /\ run'[c].outcome \in SubmitOutcomes

\* C28: no submission is made for a shipping operation for which the partner
\* has already accepted a submission.
C28_NoResubmitAfterAccept ==
    [][\A c \in Cycles :
          IsSubmission(c)
              => \A i \in RecIds :
                     records[i].op = Current(c).op => ~records[i].acc]_vars

\* C29: a shipping operation for which no submission was ever made and whose
\* record is Failed with no attempt counted has had its upload fail, and so has
\* been selected, in at most maxAttempts runs.
C29_PreSubmitFailuresBounded ==
    \A i \in RecIds :
        records[i].subs = 0 /\ records[i].count = 0 /\ records[i].status = "Failed"
            => records[i].preFails <= MaxAttempts

Parsers == {"ParseGLNFromSGLN", "ParseGTINFromSGTIN", "ParseSSCCFromURN"}

\* C25: normalizeToLength of a string longer than the target length returns
\* the last `length` characters of the string.
C25_TruncatesToLast ==
    codec.done /\ codec.fn = "normalizeToLength" /\ Len(codec.s) > codec.length
        => codec.out = SubSeq(codec.s, Len(codec.s) - codec.length + 1, Len(codec.s))

\* C26: the last digit of every non-empty identifier a parser returns is the
\* check digit of the digits before it.
C26_ResultIsCheckDigited ==
    codec.done /\ codec.fn \in Parsers /\ codec.out # <<>>
        => <<codec.out[Len(codec.out)]>>
               = CalculateGS1CheckDigit(SubSeq(codec.out, 1, Len(codec.out) - 1))

\* C27: the GTIN returned for a structured trade-item URN has 14 characters and
\* is the one returned for every URN with the same company prefix and
\* indicator-and-item-reference, whatever its serial, the idpat wildcard included.
C27_SerialIndependent ==
    codec.done /\ codec.fn = "ParseGTINFromSGTIN" /\ codec.form = "urn"
        => /\ Len(codec.out) = 14
           /\ \A u \in TradeItemURNs(codec.seg1, codec.seg2) :
                  ParseGTINFromSGTIN(u) = codec.out

\* the idpat form of a URN whose segments need padding has been parsed
C27_Witness ==
    /\ codec.done
    /\ codec.fn = "ParseGTINFromSGTIN"
    /\ codec.form = "urn"
    /\ HasPrefix(codec.s, "urn:epc:idpat:sgtin:")
    /\ Len(codec.seg1) + Len(codec.seg2) < 13
    /\ Len(codec.out) = 14
    /\ Cardinality(TradeItemURNs(codec.seg1, codec.seg2)) > 2

====
